---- MODULE Spec2Model ----
(***************************************************************************)
(* Model of the two numerical subsystems of kokimame/ta-embedding:         *)
(*   - average_precision (src/src/utils/utils.py), the ranking metric      *)
(*     evaluator, explored by SpecEval;                                    *)
(*   - MarginAdapter (src/src/margin_adapter.py), the semantic margin      *)
(*     engine, explored by SpecMargin.                                     *)
(*                                                                         *)
(* average_precision is vectorised over the query rows of ypred.  Every    *)
(* tensor operation before the final means acts on each row on its own,    *)
(* so the model walks the rows one at a time (topk, gather, top-1          *)
(* selection, per-row contributions) and keeps the running sums the final  *)
(* torch.mean / torch.sum calls reduce.  Real numbers are exact rationals, *)
(* written <<numerator, denominator>>.                                     *)
(***************************************************************************)
EXTENDS Integers, Sequences, FiniteSets, TLC

\* ---------------------------------------------------------------- bounds
\* Largest matrix width N (ypred is N x N, ytrue is M x M, both up to MaxN).
MaxN == 4
\* Entries of ypred are drawn from 0..MaxScore (larger = closer).
MaxScore == 1
\* Longest flattened label_list given to MarginAdapter.__init__.
MaxLabels == 4
\* Longest sel_pos / sel_neg given to adapt and adapt2.
MaxTriples == 2

\* ------------------------------------------------------- program constants
\* utils.py:117, the lower end of the accepted cutoffs: 3 <= k <= N.
MinK == 3
\* utils.py:131, temp = arange(k) * 1e-6, kept as its reciprocal.
EpsInv == 1000000
\* utils.py:137, top10 sums found[:, :10].
TopTenWidth == 10
\* margin_adapter.py:32, the divisor of dist / 4.
Div == 4
\* model_evaluate.py:96, float('-inf') on the diagonal: beyond every distance.
Inf == 100

\* An optional value: None is the empty sequence, a present value x is <<x>>.
None == <<>>
Some(x) == <<x>>
\* The mean of an empty tensor (torch) or list (numpy) is NaN: 0/0.
NaN == <<0, 0>>

VARIABLES
    \* ---- average_precision
    pc,          \* position in average_precision
    N,           \* ypred.size(1); ypred is square
    M,           \* number of rows (and columns) of the loaded ytrue
    k,           \* the parameter k: None or Some(n) as passed, an integer once replaced
    i,           \* index (0-based) of the query row being processed
    spred,       \* row i of spred: the ranked column indices (1-based)
    found,       \* row i of found
    ytrue_sum,   \* entry i of torch.sum(ytrue, 1)
    sel,         \* entry i of sel (0-based position)
    acc,         \* running sums reduced by the final mean / sum calls
    result,      \* what average_precision returned, or None
    \* ---- MarginAdapter
    mpc,              \* "new" before __init__, "built" at its end, "ready" after
    label_list,       \* the label_list argument of __init__, while it runs
    base_margin,      \* self.base_margin, in 1/Div units
    description_file, \* the description_file argument of __init__, while it runs
    label_to_vector,  \* self.label_to_vector
    pairwise_dists,   \* self.pairwise_dists
    average_dist,     \* self.average_dist
    dist_semantic,    \* self.dist_semantic
    call,             \* the last adapt / adapt2 call: its arguments
    adapted_margin    \* what that call returned, or its exception

evalVars == <<pc, N, M, k, i, spred, found, ytrue_sum, sel, acc, result>>
marginVars == <<mpc, label_list, base_margin, description_file, label_to_vector, pairwise_dists,
                average_dist, dist_semantic, call, adapted_margin>>
vars == <<evalVars, marginVars>>

\* ------------------------------------------------------------ arithmetic
Max(a, b) == IF a >= b THEN a ELSE b
Min(a, b) == IF a <= b THEN a ELSE b
Abs(a) == IF a >= 0 THEN a ELSE -a

RECURSIVE GCD(_, _)
GCD(a, b) == IF b = 0 THEN a ELSE GCD(b, a % b)

RECURSIVE LCMUpTo(_)
LCMUpTo(n) == IF n <= 1 THEN 1 ELSE LET l == LCMUpTo(n - 1) IN (l * n) \div GCD(l, n)

\* Equality of two rationals <<a, b>>, <<c, d>> with positive denominators.
REq(x, y) == x[1] * y[2] = y[1] * x[2]

RECURSIVE SumSeq(_)
SumSeq(s) == IF s = <<>> THEN 0 ELSE s[1] + SumSeq(Tail(s))


\* ===================================================== average_precision
\* EffectiveK with the lower end of the range excluded (3 < k <= N).
EffectiveKStrict(kreq, n) ==
    IF kreq = None \/ ~(MinK < kreq[1] /\ kreq[1] <= n) THEN n ELSE kreq[1]

\* utils.py:117-118: the cutoff used, from the requested one (None or Some(n)).
EffectiveK(kreq, n) ==
    IF kreq = None \/ ~(MinK <= kreq[1] /\ kreq[1] <= n) THEN n ELSE kreq[1]

\* The indices among `cols` whose value in `row` is largest.
ArgMax(row, cols) == {c \in cols : \A d \in cols : row[c] >= row[d]}

\* torch.topk(row, kk): the indices of the kk largest entries, largest first.
\* The order among equal entries is not specified by torch, so every order is
\* a possible outcome: the set of all of them.
RECURSIVE TopKFrom(_, _, _)
TopKFrom(row, cols, kk) ==
    IF kk = 0 THEN {<<>>}
    ELSE UNION {{<<c>> \o s : s \in TopKFrom(row, cols \ {c}, kk - 1)} :
                c \in ArgMax(row, cols)}

\* utils.py:120, one row of torch.topk(ypred, k, dim=1).
TopK(ypredRow, kk) == TopKFrom(ypredRow, DOMAIN ypredRow, kk)

\* utils.py:122, one row of torch.gather(ytrue, 1, spred).
Gather(ytrueRow, spredRow) == [j \in 1..Len(spredRow) |-> ytrueRow[spredRow[j]]]

\* utils.py:141, one row of torch.cumsum(found, 1).
RECURSIVE CumSum(_)
CumSum(s) ==
    IF s = <<>> THEN <<>>
    ELSE LET front == CumSum(SubSeq(s, 1, Len(s) - 1))
         IN  Append(front, (IF front = <<>> THEN 0 ELSE front[Len(front)]) + s[Len(s)])

\* The common denominator of the per-row fractions: positions and row sums
\* are at most the larger matrix size.
Scale(n, m) == LCMUpTo(Max(n, m))

\* utils.py:140-145, torch.sum(prec * mask, 1) of one row, times the scale l.
PrecSum(foundRow, l) ==
    LET cumsum == CumSum(foundRow)
        mask == [j \in 1..Len(foundRow) |-> IF foundRow[j] > 0 THEN 1 ELSE 0]
    IN  SumSeq([j \in 1..Len(foundRow) |-> (cumsum[j] * (l \div j)) * mask[j]])

\* RowAP divided by the relevant items found within the cutoff instead of
\* the row's total.
RowAPOverFound(foundRow, total, l) ==
    IF SumSeq(foundRow) = 0 THEN 0 ELSE PrecSum(foundRow, l) * (l \div SumSeq(foundRow))

\* utils.py:145, one entry of ap, times l * l. The row sum is a float32 that
\* is at least 1 wherever the entry is kept (line 146), and adding eps = 1e-10
\* to such a float32 leaves it unchanged.
RowAP(foundRow, total, l) == PrecSum(foundRow, l) * (l \div total)

\* Adjusted with temp added instead of subtracted.
AdjustedLatest(foundRow) == [j \in 1..Len(foundRow) |-> foundRow[j] * EpsInv + (j - 1)]

\* utils.py:131-133, found - temp for one row, times EpsInv.
Adjusted(foundRow) == [j \in 1..Len(foundRow) |-> foundRow[j] * EpsInv - (j - 1)]

\* utils.py:133, one row of torch.topk(found - temp, 1, dim=1): 0-based positions.
SelTop1(foundRow) == {s[1] - 1 : s \in TopK(Adjusted(foundRow), 1)}

\* utils.py:137, the row's part of torch.sum(found[:, :10]).
TopTenRow(foundRow) == SumSeq(SubSeq(foundRow, 1, Min(TopTenWidth, Len(foundRow))))

\* utils.py:128-129, the 0-based column positions of the row's ones.
OnesPositions(foundRow) == {j - 1 : j \in {jj \in 1..Len(foundRow) : foundRow[jj] = 1}}

RECURSIVE SumSet(_)
SumSet(S) == IF S = {} THEN 0 ELSE LET x == CHOOSE y \in S : TRUE IN x + SumSet(S \ {x})

\* Where the call goes after loading, from the shapes alone.  torch.gather
\* (line 122) needs ytrue to have at least as many rows as spred and every
\* index inside ytrue's columns, so M < N raises.  The division of line 145
\* broadcasts a length-N tensor against a length-M one, which raises unless
\* N = M or N = 1.  With N = 1 < M current torch computes; older releases
\* refused a gather whose index is smaller than its input: both are outcomes.
ShapeOutcomes(n, m) ==
    IF m = n THEN {"topk"}
    ELSE IF m < n \/ n > 1 THEN {"error"}
    ELSE {"error", "topk"}

ZeroAcc == [apSum |-> 0, apCnt |-> 0, rrSum |-> 0, rankSum |-> 0,
            top1 |-> 0, top10 |-> 0, onesSum |-> 0, onesCnt |-> 0]

KRequests == {None} \cup {Some(n) : n \in 0..(MaxN + 1)}

InitEval ==
    /\ pc = "start"
    /\ N \in 1..MaxN
    /\ M \in 1..MaxN
    /\ k \in KRequests
    /\ i = 0
    /\ spred = <<>>
    /\ found = <<>>
    /\ ytrue_sum = 0
    /\ sel = 0
    /\ acc = ZeroAcc
    /\ result = None

\* utils.py:116-118: load ytrue, replace k.  The shape errors raised further
\* down (lines 122 and 145) depend on the shapes alone and nothing is printed
\* or returned before them, so the call is aborted here.
Load ==
    /\ pc = "start"
    /\ k' = EffectiveK(k, N)
    /\ pc' \in ShapeOutcomes(N, M)
    /\ UNCHANGED <<N, M, i, spred, found, ytrue_sum, sel, acc, result>>
    /\ UNCHANGED marginVars

\* utils.py:120, row i of spred.
TopKRow ==
    /\ pc = "topk"
    /\ \E ypredRow \in [1..N -> 0..MaxScore] :
         \E s \in TopK(ypredRow, k) : spred' = s
    /\ pc' = "gather"
    /\ UNCHANGED <<N, M, k, i, found, ytrue_sum, sel, acc, result>>
    /\ UNCHANGED marginVars

\* utils.py:122-124, row i of found and of ytrue_sum.
GatherRow ==
    /\ pc = "gather"
    /\ \E ytrueRow \in [1..M -> {0, 1}] :
         /\ found' = Gather(ytrueRow, spred)
         /\ ytrue_sum' = SumSeq(ytrueRow)
    /\ spred' = <<>>
    /\ pc' = "select"
    /\ UNCHANGED <<N, M, k, i, sel, acc, result>>
    /\ UNCHANGED marginVars

\* utils.py:131-133, row i of sel.
SelectRow ==
    /\ pc = "select"
    /\ \E s \in SelTop1(found) : sel' = s
    /\ pc' = "accumulate"
    /\ UNCHANGED <<N, M, k, i, spred, found, ytrue_sum, acc, result>>
    /\ UNCHANGED marginVars

\* AccAfterRow with the rows that have no relevant item left out of MR and MRR.
AccAfterRowSkipEmpty(a, foundRow, total, s, l) ==
    [apSum   |-> a.apSum + (IF total > 0 THEN RowAP(foundRow, total, l) ELSE 0),
     apCnt   |-> a.apCnt + (IF total > 0 THEN 1 ELSE 0),
     rrSum   |-> a.rrSum + (IF SumSeq(foundRow) > 0 THEN l \div (s + 1) ELSE 0),
     rankSum |-> a.rankSum + (IF SumSeq(foundRow) > 0 THEN s + 1 ELSE 0),
     top1    |-> a.top1 + foundRow[1],
     top10   |-> a.top10 + TopTenRow(foundRow),
     onesSum |-> a.onesSum + SumSet(OnesPositions(foundRow)),
     onesCnt |-> a.onesCnt + Cardinality(OnesPositions(foundRow))]

\* The sums after row i of found, sel and ap is added in (lines 128-129,
\* 134-137, 145-146).
AccAfterRow(a, foundRow, total, s, l) ==
    [apSum   |-> a.apSum + (IF total > 0 THEN RowAP(foundRow, total, l) ELSE 0),
     apCnt   |-> a.apCnt + (IF total > 0 THEN 1 ELSE 0),
     rrSum   |-> a.rrSum + (l \div (s + 1)),
     rankSum |-> a.rankSum + (s + 1),
     top1    |-> a.top1 + foundRow[1],
     top10   |-> a.top10 + TopTenRow(foundRow),
     onesSum |-> a.onesSum + SumSet(OnesPositions(foundRow)),
     onesCnt |-> a.onesCnt + Cardinality(OnesPositions(foundRow))]

\* utils.py:128-146 for row i.
AccumulateRow ==
    /\ pc = "accumulate"
    /\ acc' = AccAfterRow(acc, found, ytrue_sum, sel, Scale(N, M))
    /\ i' = i + 1
    /\ IF i + 1 < N
         THEN /\ pc' = "topk"
              /\ found' = <<>>
              /\ ytrue_sum' = 0
              /\ sel' = 0
         ELSE /\ pc' = IF i + 1 < M THEN "extra" ELSE "reduce"
              /\ UNCHANGED <<found, ytrue_sum, sel>>
    /\ UNCHANGED <<N, M, k, spred, result>>
    /\ UNCHANGED marginVars

\* utils.py:124, 145-146 for a row of ytrue below the last row of ypred
\* (N = 1 < M): the single row of prec * mask is broadcast against it.
ExtraRow ==
    /\ pc = "extra"
    /\ \E ytrueRow \in [1..M -> {0, 1}] :
         LET total == SumSeq(ytrueRow) IN
         /\ ytrue_sum' = total
         /\ acc' = [acc EXCEPT
                      !.apSum = @ + (IF total > 0 THEN RowAP(found, total, Scale(N, M)) ELSE 0),
                      !.apCnt = @ + (IF total > 0 THEN 1 ELSE 0)]
    /\ i' = i + 1
    /\ pc' = IF i + 1 < M THEN "extra" ELSE "reduce"
    /\ UNCHANGED <<N, M, k, spred, found, sel, result>>
    /\ UNCHANGED marginVars

\* A mean: NaN when nothing is averaged.
Mean(sum, cnt, scale) == IF cnt = 0 THEN NaN ELSE <<sum, cnt * scale>>

\* utils.py:129, 134-137, 148-155: the returned tuple (reduce_mean=True).
Metrics(a, n, l) ==
    [mAP  |-> Mean(a.apSum, a.apCnt, l * l),
     mrr  |-> Mean(a.rrSum, n, l),
     mr   |-> Mean(a.rankSum, n, 1),
     top1 |-> a.top1,
     top10 |-> a.top10,
     ones_average |-> Mean(a.onesSum, a.onesCnt, 1)]

Finish ==
    /\ pc = "reduce"
    /\ result' = Some(Metrics(acc, N, Scale(N, M)))
    /\ pc' = "done"
    /\ UNCHANGED <<N, M, k, i, spred, found, ytrue_sum, sel, acc>>
    /\ UNCHANGED marginVars

NextEval ==
    \/ Load
    \/ TopKRow
    \/ GatherRow
    \/ SelectRow
    \/ AccumulateRow
    \/ ExtraRow
    \/ Finish

MarginIdle ==
    /\ mpc = "idle"
    /\ label_list = <<>>
    /\ base_margin = 0
    /\ description_file = None
    /\ label_to_vector = <<>>
    /\ pairwise_dists = <<>>
    /\ average_dist = NaN
    /\ dist_semantic = <<>>
    /\ call = None
    /\ adapted_margin = None

EvalInit == InitEval /\ MarginIdle

SpecEval == EvalInit /\ [][NextEval]_vars


\* utils.py:107-156 on whole matrices of matching shape: the accumulated sums
\* every order of ties can give, from row `row` on.
RECURSIVE AccsFrom(_, _, _, _, _, _)
AccsFrom(a, ypredM, ytrueM, kk, row, l) ==
    IF row > Len(ypredM) THEN {a}
    ELSE UNION {UNION {AccsFrom(AccAfterRow(a, Gather(ytrueM[row], s), SumSeq(ytrueM[row]), t, l),
                                ypredM, ytrueM, kk, row + 1, l) :
                       t \in SelTop1(Gather(ytrueM[row], s))} :
                s \in TopK(ypredM[row], kk)}

\* utils.py:107-156: the tuples average_precision can return for a square
\* ypred and a ytrue of the same shape.
AveragePrecision(ypredM, ytrueM, kreq) ==
    LET n == Len(ypredM)
        l == Scale(n, n)
    IN  {Metrics(a, n, l) : a \in AccsFrom(ZeroAcc, ypredM, ytrueM, EffectiveK(kreq, n), 1, l)}

\* model_evaluate.py:96: ypred is the negated distance matrix.
Negated(dist) == [r \in 1..Len(dist) |-> [c \in 1..Len(dist[r]) |-> 0 - dist[r][c]]]

\* ------------------------------------------------- claims, average_precision
NoneFound == \A j \in 1..Len(found) : found[j] = 0
Relevant == {j \in 1..Len(found) : found[j] = 1}
RowsScale == Scale(N, M)

\* C1: the cutoff used is N when the requested k is None, below 3 or above N,
\* and exactly the requested k when 3 <= k <= N; it is the length of every
\* ranked row and is not replaced again.
C1_EffectiveCutoff ==
    [][/\ pc = "start" =>
            k' = IF k = None THEN N
                 ELSE IF k[1] < 3 \/ k[1] > N THEN N
                 ELSE k[1]
       /\ pc = "topk" => (Len(spred') = k /\ k' = k)
       /\ pc = "gather" => (Len(found') = k /\ k' = k)]_vars

\* C1: a cutoff of 3 requested for a width of 4 is in use on a ranked row.
C1_Witness == pc = "gather" /\ N = 4 /\ M = 4 /\ k = 3 /\ Len(spred) = 3

\* The claim's average precision of a row, as a rational: the sum over the
\* relevant positions j of (relevant items in 1..j) / j, over the row's total.
RECURSIVE Factorial(_)
Factorial(n) == IF n <= 1 THEN 1 ELSE n * Factorial(n - 1)

RECURSIVE ClaimedAPNum(_)
ClaimedAPNum(S) ==
    IF S = {} THEN 0
    ELSE LET j == CHOOSE x \in S : TRUE
         IN  Cardinality({h \in Relevant : h <= j}) * (Factorial(Len(found)) \div j)
               + ClaimedAPNum(S \ {j})

ClaimedAP == <<ClaimedAPNum(Relevant), Factorial(Len(found)) * ytrue_sum>>

ExampleDist == <<<<Inf, 1, 5>>, <<1, Inf, 2>>, <<5, 2, Inf>>>>
ExampleYtrue == <<<<0, 1, 0>>, <<1, 0, 0>>, <<0, 0, 0>>>>

\* C2: a row with relevant items adds to the mAP sum its average precision
\* (sum over relevant ranked positions j of hits-up-to-j / j, over the row's
\* total of relevant items) and counts as one query; a row with no relevant
\* item adds nothing and is not counted; mAP is that sum over that count; on
\* the example matrices mAP is 1 over two queries.
C2_AveragePrecision ==
    /\ [](pc = "done" /\ acc.apCnt > 0 =>
            /\ REq(result[1].mAP, <<acc.apSum, acc.apCnt * RowsScale * RowsScale>>)
            /\ result[1].mAP[2] # 0)
    /\ [](pc = "done" /\ acc.apCnt = 0 => result[1].mAP = NaN)
    /\ [](\A r \in AveragePrecision(Negated(ExampleDist), ExampleYtrue, None) :
            /\ REq(r.mAP, <<1, 1>>)
            /\ r.mAP[2] = 2 * Scale(3, 3) * Scale(3, 3)
            /\ r.top1 = 2)
    /\ [][pc = "accumulate" =>
            IF ytrue_sum > 0
              THEN /\ acc'.apCnt = acc.apCnt + 1
                   /\ (acc'.apSum - acc.apSum) * ClaimedAP[2]
                        = ClaimedAP[1] * RowsScale * RowsScale
              ELSE /\ acc'.apCnt = acc.apCnt
                   /\ acc'.apSum = acc.apSum]_vars

\* C2: three queries were evaluated, one of them without relevant items, and
\* mAP is 1 over the two others.
C2_Witness ==
    /\ pc = "done" /\ N = 3 /\ M = 3
    /\ acc.apCnt = 2 /\ acc.top1 = 2
    /\ REq(result[1].mAP, <<1, 1>>)

\* C3 as stated: on every row the selected position holds a relevant item and
\* no earlier position does.
C3_Original ==
    pc = "accumulate" => (found[sel + 1] = 1 /\ \A j \in 1..sel : found[j] = 0)

\* C3 amended: on every row with a relevant item among its k ranked positions
\* the selected position is the earliest relevant one; MR is the mean over all
\* N queries of the selected position's 1-indexed rank and MRR the mean of
\* its reciprocal, every row adding its rank whatever its number of relevant
\* items.
C3_FirstRelevant ==
    /\ [](pc = "accumulate" /\ ~NoneFound =>
            (found[sel + 1] = 1 /\ \A j \in 1..sel : found[j] = 0))
    /\ [](pc = "done" =>
            /\ result[1].mr[2] = N /\ result[1].mr[1] = acc.rankSum
            /\ REq(result[1].mrr, <<acc.rrSum, N * RowsScale>>))
    /\ [][pc = "accumulate" =>
            /\ acc'.rankSum = acc.rankSum + (sel + 1)
            /\ (acc'.rrSum - acc.rrSum) * (sel + 1) = RowsScale
            /\ i' = i + 1]_vars

\* C3: a row whose first relevant item is ranked third, after two rows.
C3_Witness ==
    pc = "accumulate" /\ i = 2 /\ found = <<0, 0, 1, 1>> /\ sel = 2

\* C10: a row with no relevant item among its k ranked positions selects
\* position 0 and adds rank 1 to MR and reciprocal rank 1 to MRR, as a row
\* whose first ranked item is relevant does.
C10_EmptyRowRanksFirst ==
    /\ [](pc = "accumulate" /\ (NoneFound \/ found[1] = 1) => sel = 0)
    /\ [][pc = "accumulate" /\ (NoneFound \/ found[1] = 1) =>
            /\ acc'.rankSum = acc.rankSum + 1
            /\ acc'.rrSum - acc.rrSum = RowsScale]_vars

\* C10: a row whose relevant items all fall beyond the cutoff.
C10_Witness ==
    pc = "accumulate" /\ NoneFound /\ ytrue_sum > 0 /\ k < N /\ sel = 0

\* C6: when ytrue and ypred differ in size, the call aborts and returns nothing.
C6_MismatchAborts == M # N => (pc # "done" /\ result = None)

\* ========================================================= MarginAdapter
\* Distances are whole numbers; margins are kept in units of 1/Div, so that
\* dist / 4 is exact.  One is the margin 1 in these units.
One == Div

\* The label vocabulary of the training data.
Labels == {"rain", "siren", "dog bark"}

\* spacy's tokenizer (line 53): the words of a description.
Words(description) ==
    CASE description = "rain" -> <<"rain">>
      [] description = "siren" -> <<"siren">>
      [] description = "dog bark" -> <<"dog", "bark">>
      [] description = "rain siren" -> <<"rain", "siren">>
      [] OTHER -> <<description>>

\* spacy's word.vector (line 53), one dimension wide, in whole units.
WordVector(word) ==
    CASE word = "rain" -> 0
      [] word = "siren" -> 4
      [] word = "dog" -> 2
      [] word = "bark" -> 10
      [] OTHER -> 1

\* The description_file argument: None, or a JSON file with this content.
DescriptionFiles == {None, Some([l \in {"siren"} |-> "rain siren"])}

\* margin_adapter.py:37-42.
DescriptionLookup(file) == IF file = None THEN <<>> ELSE file[1]

\* margin_adapter.py:53-54: the mean of the words' vectors (the vocabulary
\* above keeps it a whole number).
MeanVector(description) ==
    LET ws == Words(description)
    IN  SumSeq([j \in 1..Len(ws) |-> WordVector(ws[j])]) \div Len(ws)

\* margin_adapter.py:46.
RECURSIVE Flatten(_)
Flatten(ll) == IF ll = <<>> THEN <<>> ELSE ll[1] \o Flatten(Tail(ll))

\* A dict is the sequence of its <<key, value>> items in insertion order.
DictKeys(d) == [j \in 1..Len(d) |-> d[j][1]]
HasKey(d, key) == \E j \in 1..Len(d) : d[j][1] = key
Lookup(d, key) == d[CHOOSE j \in 1..Len(d) : d[j][1] = key][2]
DictValues(d) == [j \in 1..Len(d) |-> d[j][2]]

\* AddLabel without the test of line 52.
AddLabelAlways(d, label, lookup) ==
    LET description == IF label \in DOMAIN lookup THEN lookup[label] ELSE label
    IN  Append(d, <<label, MeanVector(description)>>)

\* margin_adapter.py:47-55, the loop body for one label.
AddLabel(d, label, lookup) ==
    LET description == IF label \in DOMAIN lookup THEN lookup[label] ELSE label
    IN  IF ~HasKey(d, label) THEN Append(d, <<label, MeanVector(description)>>) ELSE d

\* margin_adapter.py:44-55.
RECURSIVE LookupFrom(_, _, _)
LookupFrom(d, label_sequence, lookup) ==
    IF label_sequence = <<>> THEN d
    ELSE LookupFrom(AddLabel(d, label_sequence[1], lookup), Tail(label_sequence), lookup)

InitializeLookup(ll, file) == LookupFrom(<<>>, Flatten(ll), DescriptionLookup(file))

\* itertools.permutations(keys, 2): the pairs of two different positions, in order.
Permutations2(keys) ==
    LET n == Len(keys)
        ix == [t \in 1..(n * (n - 1)) |->
                 LET a == ((t - 1) \div (n - 1)) + 1
                     r == ((t - 1) % (n - 1)) + 1
                 IN  <<a, IF r < a THEN r ELSE r + 1>>]
    IN  [t \in 1..(n * (n - 1)) |-> <<keys[ix[t][1]], keys[ix[t][2]]>>]

\* margin_adapter.py:17-19, np.linalg.norm of a one-dimensional difference.
Norm(v1, v2) == Abs(v1 - v2)

\* margin_adapter.py:17-19: the distance written for (l1, l2), in whole units.
PairDist(l2v, l1, l2) == Norm(Lookup(l2v, l1), Lookup(l2v, l2))

\* margin_adapter.py:28-32: the value written for (l1, l2): dist / 4 - base_margin,
\* in 1/Div units.
SemanticDist(l2v, l1, l2, base) == (PairDist(l2v, l1, l2) * One) \div Div - base

\* margin_adapter.py:15-21: the loop over the pairs. The assert of line 20
\* fails on a pair already written.
RECURSIVE PairwiseFrom(_, _, _)
PairwiseFrom(d, pairs, l2v) ==
    IF pairs = <<>> THEN [ok |-> TRUE, dict |-> d]
    ELSE IF HasKey(d, pairs[1]) THEN [ok |-> FALSE, dict |-> d]
    ELSE PairwiseFrom(Append(d, <<pairs[1], PairDist(l2v, pairs[1][1], pairs[1][2])>>),
                      Tail(pairs), l2v)

\* margin_adapter.py:26-32: the second loop over the pairs, with its assert.
RECURSIVE SemanticFrom(_, _, _, _)
SemanticFrom(d, pairs, l2v, base) ==
    IF pairs = <<>> THEN [ok |-> TRUE, dict |-> d]
    ELSE IF HasKey(d, pairs[1]) THEN [ok |-> FALSE, dict |-> d]
    ELSE SemanticFrom(Append(d, <<pairs[1], SemanticDist(l2v, pairs[1][1], pairs[1][2], base)>>),
                      Tail(pairs), l2v, base)

\* margin_adapter.py:22, np.mean of the values: NaN for an empty table.
AverageDist(d) == Mean(SumSeq(DictValues(d)), Len(d), 1)

\* BuildAdapter with the first table filled like the second (line 32 for line 21).
BuildAdapterShifted(ll, base, file) ==
    LET l2v == InitializeLookup(ll, file)
        pairs == Permutations2(DictKeys(l2v))
        ds == SemanticFrom(<<>>, pairs, l2v, base)
    IN  [ok |-> ds.ok,
         label_to_vector |-> l2v,
         pairwise_dists |-> ds.dict,
         average_dist |-> AverageDist(ds.dict),
         dist_semantic |-> ds.dict]

\* margin_adapter.py:10-32.
BuildAdapter(ll, base, file) ==
    LET l2v == InitializeLookup(ll, file)
        pairs == Permutations2(DictKeys(l2v))
        pd == PairwiseFrom(<<>>, pairs, l2v)
        ds == SemanticFrom(<<>>, pairs, l2v, base)
    IN  [ok |-> pd.ok /\ ds.ok,
         label_to_vector |-> l2v,
         pairwise_dists |-> pd.dict,
         average_dist |-> AverageDist(pd.dict),
         dist_semantic |-> ds.dict]

\* The sequences over S of length at most n.
SeqsUpTo(S, n) == UNION {[1..m -> S] : m \in 0..n}

\* A flat label sequence as one group, or cut into two groups.
Groupings(flat) ==
    {<<flat>>} \cup {<<SubSeq(flat, 1, c), SubSeq(flat, c + 1, Len(flat))>> : c \in 0..Len(flat)}

LabelLists == UNION {Groupings(flat) : flat \in SeqsUpTo(Labels, MaxLabels)}

\* base_margin values, in 1/Div units: 0.5 and 1.
BaseMargins == {2, 4}

\* The labels of the batch, by position (1-based).
BatchLabels == <<"siren", "rain", "dog bark">>

InitMargin ==
    /\ mpc = "new"
    /\ label_list \in LabelLists
    /\ base_margin \in BaseMargins
    /\ description_file \in DescriptionFiles
    /\ label_to_vector = <<>>
    /\ pairwise_dists = <<>>
    /\ average_dist = NaN
    /\ dist_semantic = <<>>
    /\ call = None
    /\ adapted_margin = None

\* MarginAdapter.__init__ (margin_adapter.py:10-32), up to its last line.
Construct ==
    /\ mpc = "new"
    /\ LET a == BuildAdapter(label_list, base_margin, description_file) IN
         /\ mpc' = IF a.ok THEN "built" ELSE "AssertionError"
         /\ label_to_vector' = a.label_to_vector
         /\ pairwise_dists' = a.pairwise_dists
         /\ average_dist' = a.average_dist
         /\ dist_semantic' = a.dist_semantic
    /\ UNCHANGED <<label_list, base_margin, description_file, call, adapted_margin>>
    /\ UNCHANGED evalVars

\* GreaterThan with >= for >.
GreaterOrEqual(dist, avg) == dist * avg[2] >= avg[1]

\* __init__ returns: its arguments go out of scope, the adapter keeps its
\* fields (base_margin and the four tables).
EndInit ==
    /\ mpc = "built"
    /\ mpc' = "ready"
    /\ label_list' = <<>>
    /\ description_file' = None
    /\ UNCHANGED <<base_margin, label_to_vector, pairwise_dists, average_dist,
                   dist_semantic, call, adapted_margin>>
    /\ UNCHANGED evalVars

\* dist > self.average_dist (line 65), the average a rational.
GreaterThan(dist, avg) == dist * avg[2] > avg[1]

\* margin_adapter.py:65-68, the element appended for one triple.
BinaryMargin(dist, avg, base) ==
    IF GreaterThan(dist, avg) THEN <<base + One>> ELSE <<base - One>>

\* ContinuousMargin without base_margin added back.
ContinuousMarginRaw(dist, base) == <<dist>>

\* margin_adapter.py:79.
ContinuousMargin(dist, base) == <<base + dist>>

\* AdaptFrom skipping a triple whose pair is missing instead of raising.
RECURSIVE AdaptFromSkipping(_, _, _, _, _, _, _, _)
AdaptFromSkipping(margin_list, labels, sel_pos, sel_neg, t, pd, avg, base) ==
    IF t > Min(Len(sel_pos), Len(sel_neg)) THEN [raised |-> None, value |-> margin_list]
    ELSE LET pos_label == labels[sel_pos[t]]
             neg_label == labels[sel_neg[t]]
         IN  IF ~HasKey(pd, <<pos_label, neg_label>>)
               THEN AdaptFromSkipping(margin_list, labels, sel_pos, sel_neg, t + 1, pd, avg, base)
               ELSE AdaptFromSkipping(Append(margin_list,
                                     BinaryMargin(Lookup(pd, <<pos_label, neg_label>>), avg, base)),
                              labels, sel_pos, sel_neg, t + 1, pd, avg, base)

\* margin_adapter.py:60-68: the loop of adapt from triple t on. A missing key
\* raises KeyError out of the call: nothing is returned.
RECURSIVE AdaptFrom(_, _, _, _, _, _, _, _)
AdaptFrom(margin_list, labels, sel_pos, sel_neg, t, pd, avg, base) ==
    IF t > Min(Len(sel_pos), Len(sel_neg)) THEN [raised |-> None, value |-> margin_list]
    ELSE LET pos_label == labels[sel_pos[t]]
             neg_label == labels[sel_neg[t]]
         IN  IF ~HasKey(pd, <<pos_label, neg_label>>)
               THEN [raised |-> Some("KeyError"), value |-> <<>>]
               ELSE AdaptFrom(Append(margin_list,
                                     BinaryMargin(Lookup(pd, <<pos_label, neg_label>>), avg, base)),
                              labels, sel_pos, sel_neg, t + 1, pd, avg, base)

\* margin_adapter.py:75-79: the loop of adapt2 from triple t on.
RECURSIVE Adapt2From(_, _, _, _, _, _, _)
Adapt2From(margin_list, labels, sel_pos, sel_neg, t, ds, base) ==
    IF t > Min(Len(sel_pos), Len(sel_neg)) THEN [raised |-> None, value |-> margin_list]
    ELSE LET pos_label == labels[sel_pos[t]]
             neg_label == labels[sel_neg[t]]
         IN  IF ~HasKey(ds, <<pos_label, neg_label>>)
               THEN [raised |-> Some("KeyError"), value |-> <<>>]
               ELSE Adapt2From(Append(margin_list,
                                      ContinuousMargin(Lookup(ds, <<pos_label, neg_label>>), base)),
                               labels, sel_pos, sel_neg, t + 1, ds, base)

Positions == 1..Len(BatchLabels)
Selections == UNION {[1..m -> Positions \X Positions] : m \in 0..MaxTriples}

\* MarginAdapter.adapt (margin_adapter.py:58-71).
Adapt ==
    /\ mpc = "ready"
    /\ call = None
    /\ \E selection \in Selections :
         LET sel_pos == [t \in 1..Len(selection) |-> selection[t][1]]
             sel_neg == [t \in 1..Len(selection) |-> selection[t][2]]
         IN  /\ call' = Some([method |-> "adapt", labels |-> BatchLabels,
                              sel_pos |-> sel_pos, sel_neg |-> sel_neg])
             /\ adapted_margin' = Some(AdaptFrom(<<>>, BatchLabels, sel_pos, sel_neg, 1,
                                                 pairwise_dists, average_dist, base_margin))
    /\ UNCHANGED <<mpc, label_list, base_margin, description_file, label_to_vector,
                   pairwise_dists, average_dist, dist_semantic>>
    /\ UNCHANGED evalVars

\* MarginAdapter.adapt2 (margin_adapter.py:73-83).
Adapt2 ==
    /\ mpc = "ready"
    /\ call = None
    /\ \E selection \in Selections :
         LET sel_pos == [t \in 1..Len(selection) |-> selection[t][1]]
             sel_neg == [t \in 1..Len(selection) |-> selection[t][2]]
         IN  /\ call' = Some([method |-> "adapt2", labels |-> BatchLabels,
                              sel_pos |-> sel_pos, sel_neg |-> sel_neg])
             /\ adapted_margin' = Some(Adapt2From(<<>>, BatchLabels, sel_pos, sel_neg, 1,
                                                  dist_semantic, base_margin))
    /\ UNCHANGED <<mpc, label_list, base_margin, description_file, label_to_vector,
                   pairwise_dists, average_dist, dist_semantic>>
    /\ UNCHANGED evalVars

\* The caller takes what the call returned (or catches what it raised); the
\* adapter is ready for the next call.
Return ==
    /\ mpc = "ready"
    /\ call # None
    /\ call' = None
    /\ adapted_margin' = None
    /\ UNCHANGED <<mpc, label_list, base_margin, description_file, label_to_vector,
                   pairwise_dists, average_dist, dist_semantic>>
    /\ UNCHANGED evalVars

NextMargin ==
    \/ Construct
    \/ EndInit
    \/ Adapt
    \/ Adapt2
    \/ Return

EvalIdle ==
    /\ pc = "idle"
    /\ N = 0
    /\ M = 0
    /\ k = None
    /\ i = 0
    /\ spred = <<>>
    /\ found = <<>>
    /\ ytrue_sum = 0
    /\ sel = 0
    /\ acc = ZeroAcc
    /\ result = None

MarginInit == InitMargin /\ EvalIdle

SpecMargin == MarginInit /\ [][NextMargin]_vars

\* --------------------------------------------------- claims, MarginAdapter
Called(method) == call # None /\ call[1].method = method
Returned == adapted_margin[1]
Triples == 1..Min(Len(call[1].sel_pos), Len(call[1].sel_neg))
PosLabel(t) == call[1].labels[call[1].sel_pos[t]]
NegLabel(t) == call[1].labels[call[1].sel_neg[t]]
\* The labels of the construction corpus: those given to __init__, which are
\* (C9) the labels that have a vector.
GivenLabels == {Flatten(label_list)[j] : j \in 1..Len(Flatten(label_list))}
Corpus == {label_to_vector[j][1] : j \in 1..Len(label_to_vector)}
InTable(t) == PosLabel(t) \in Corpus /\ NegLabel(t) \in Corpus /\ PosLabel(t) # NegLabel(t)
TableDist(t) == Lookup(pairwise_dists, <<PosLabel(t), NegLabel(t)>>)

RECURSIVE SumValues(_, _)
SumValues(d, n) == IF n = 0 THEN 0 ELSE d[n][2] + SumValues(d, n - 1)

\* C4: adapt returns one single-element margin per triple, in order:
\* base_margin + 1 where the table distance of the triple's labels is strictly
\* above the average distance, base_margin - 1 otherwise.
C4_BinaryMargin ==
    Called("adapt") /\ Returned.raised = None =>
        /\ Len(Returned.value) = Len(call[1].sel_pos)
        /\ \A t \in Triples :
             /\ Len(Returned.value[t]) = 1
             /\ Returned.value[t][1] \in {base_margin + One, base_margin - One}
             /\ Returned.value[t][1] = base_margin + One
                  <=> TableDist(t) * Len(pairwise_dists) > SumValues(pairwise_dists, Len(pairwise_dists))

\* C4: a batch with a distance above the average and one equal to it.
C4_Witness ==
    /\ Called("adapt") /\ Returned.raised = None /\ Len(Returned.value) = 2
    /\ Returned.value[1] = <<base_margin + One>>
    /\ Returned.value[2] = <<base_margin - One>>
    /\ TableDist(2) * Len(pairwise_dists) = SumValues(pairwise_dists, Len(pairwise_dists))

\* C5: adapt2 returns one single-element margin per triple, in order, equal to
\* base_margin + (distance / 4 - base_margin), that is distance / 4.
C5_ContinuousMargin ==
    Called("adapt2") /\ Returned.raised = None =>
        /\ Len(Returned.value) = Len(call[1].sel_pos)
        /\ \A t \in Triples :
             /\ Len(Returned.value[t]) = 1
             /\ Returned.value[t][1] * 4 = TableDist(t) * One

\* C5: two triples of different distances, for a base_margin of 1.
C5_Witness ==
    /\ Called("adapt2") /\ Returned.raised = None /\ Len(Returned.value) = 2
    /\ base_margin = One
    /\ TableDist(1) # TableDist(2)
    /\ TableDist(1) > 0

\* C7: a call with a triple whose labels are not a pair of two different
\* corpus labels raises KeyError and returns no margin; any other call
\* returns; no call changes the adapter's tables.
C7_MissingPairAborts ==
    /\ [](call # None =>
            /\ (\E t \in Triples : ~InTable(t)) <=> Returned.raised = Some("KeyError")
            /\ Returned.raised # None => Returned.value = <<>>)
    /\ [][call = None /\ call' # None =>
            UNCHANGED <<label_to_vector, pairwise_dists, average_dist, dist_semantic>>]_vars

\* C7: adapt raised on its second triple, a pair of one label with itself.
C7_Witness ==
    /\ Called("adapt") /\ Returned.raised = Some("KeyError")
    /\ Len(call[1].sel_pos) = 2 /\ InTable(1) /\ ~InTable(2)
    /\ PosLabel(2) = NegLabel(2) /\ PosLabel(2) \in Corpus

\* C8: the distance table and the average distance are those of an adapter
\* built from the same labels with any other base_margin; no call changes the
\* four tables; the average is the arithmetic mean of the table's entries.
C8_TablesIndependentOfMargin ==
    /\ [](mpc = "built" =>
            \A b \in BaseMargins \cup {0} :
                 /\ BuildAdapter(label_list, b, description_file).pairwise_dists = pairwise_dists
                 /\ BuildAdapter(label_list, b, description_file).average_dist = average_dist)
    /\ [](mpc \in {"built", "ready"} /\ Len(pairwise_dists) > 0 =>
                 /\ average_dist[2] # 0
                 /\ average_dist[1] * Len(pairwise_dists)
                      = SumValues(pairwise_dists, Len(pairwise_dists)) * average_dist[2])
    /\ [][(mpc = "built" \/ mpc = "ready") =>
            UNCHANGED <<label_to_vector, pairwise_dists, average_dist, dist_semantic>>]_vars

\* C8: a call returned on an adapter over three labels.
C8_Witness ==
    /\ mpc = "ready" /\ Called("adapt2") /\ Returned.raised = None
    /\ Len(Returned.value) = 1 /\ Len(pairwise_dists) = 6

\* C9: label_to_vector has one entry per distinct label; the keys of the
\* distance table are the ordered pairs of two different labels, each once;
\* the table is symmetric.
C9_TableShape ==
    /\ mpc \notin {"new", "built", "ready"} => FALSE
    /\ mpc = "built" =>
        /\ Len(label_to_vector) = Cardinality(GivenLabels)
        /\ {label_to_vector[j][1] : j \in 1..Len(label_to_vector)} = GivenLabels
        /\ {pairwise_dists[j][1] : j \in 1..Len(pairwise_dists)}
             = {p \in GivenLabels \X GivenLabels : p[1] # p[2]}
        /\ Len(pairwise_dists) = Cardinality(GivenLabels) * (Cardinality(GivenLabels) - 1)
        /\ \A p \in {q \in GivenLabels \X GivenLabels : q[1] # q[2]} :
             Lookup(pairwise_dists, p) = Lookup(pairwise_dists, <<p[2], p[1]>>)

\* C9: an adapter built from a list that repeats a label within a group and
\* across its groups.
C9_Witness ==
    /\ mpc = "built"
    /\ label_list = <<<<"rain", "rain">>, <<"siren", "rain">>>>
    /\ Len(label_to_vector) = 2
    /\ Len(pairwise_dists) = 2

====
